---- MODULE Spec2Model ----
(***************************************************************************)
(* A model of django_easyfilters/filters.py: the date drill-down filter    *)
(* (DateRangeType, DateChoice, DateTimeFilter and the mixins it inherits). *)
(*                                                                         *)
(* Strings are TLA+ strings handled character by character (Len, SubSeq,   *)
(* \o), dates are records [year, month, day], a query set is the set of    *)
(* the dates of its records, and an exception is an outcome of its own:    *)
(* every operation that can raise has a ...Raises predicate beside the     *)
(* operator that gives its value.                                          *)
(***************************************************************************)
EXTENDS Integers, Sequences, FiniteSets, TLC

----------------------------------------------------------------------------
(* Characters, numbers and strings *)

Digits == {"0", "1", "2", "3", "4", "5", "6", "7", "8", "9"}

CharAt(s, i) == SubSeq(s, i, i)

DigitVal(c) ==
    CASE c = "0" -> 0 [] c = "1" -> 1 [] c = "2" -> 2 [] c = "3" -> 3
      [] c = "4" -> 4 [] c = "5" -> 5 [] c = "6" -> 6 [] c = "7" -> 7
      [] c = "8" -> 8 [] c = "9" -> 9

DigitChar(d) ==
    CASE d = 0 -> "0" [] d = 1 -> "1" [] d = 2 -> "2" [] d = 3 -> "3"
      [] d = 4 -> "4" [] d = 5 -> "5" [] d = 6 -> "6" [] d = 7 -> "7"
      [] d = 8 -> "8" [] d = 9 -> "9"

\* The code point of a character, for the characters a parameter can hold.
Ord(c) ==
    CASE c = "\n" -> 10
      [] c = "-" -> 45
      [] c = "." -> 46
      [] c \in Digits -> 48 + DigitVal(c)
      [] OTHER -> 120

\* int(s) for a string of digits.
RECURSIVE int(_)
int(s) ==
    IF Len(s) = 0 THEN 0
    ELSE 10 * int(SubSeq(s, 1, Len(s) - 1)) + DigitVal(CharAt(s, Len(s)))

\* str(n) for n >= 0: decimal, no leading zero.
RECURSIVE str(_)
str(n) == IF n < 10 THEN DigitChar(n) ELSE str(n \div 10) \o DigitChar(n % 10)

\* '%0<width>d' % n
RECURSIVE ZeroPad(_, _)
ZeroPad(s, width) == IF Len(s) >= width THEN s ELSE ZeroPad("0" \o s, width)

Fmt(n, width) == ZeroPad(str(n), width)

\* s.split('-')
RECURSIVE SplitFrom(_, _, _)
SplitFrom(s, i, start) ==
    IF i > Len(s) THEN << SubSeq(s, start, Len(s)) >>
    ELSE IF CharAt(s, i) = "-"
         THEN << SubSeq(s, start, i - 1) >> \o SplitFrom(s, i + 1, i + 1)
         ELSE SplitFrom(s, i + 1, start)

split(s) == SplitFrom(s, 1, 1)

\* sep.join(strs)
RECURSIVE join(_, _)
join(sep, strs) ==
    IF Len(strs) = 0 THEN ""
    ELSE IF Len(strs) = 1 THEN strs[1]
    ELSE strs[1] \o sep \o join(sep, Tail(strs))

\* cmp(a, b) of two integers.
cmpInt(a, b) == IF a < b THEN -1 ELSE IF a > b THEN 1 ELSE 0

\* cmp(a, b) of two strings: by code point, a proper prefix first.
RECURSIVE cmpStrFrom(_, _, _)
cmpStrFrom(a, b, i) ==
    IF i > Len(a) /\ i > Len(b) THEN 0
    ELSE IF i > Len(a) THEN -1
    ELSE IF i > Len(b) THEN 1
    ELSE IF Ord(CharAt(a, i)) # Ord(CharAt(b, i))
         THEN cmpInt(Ord(CharAt(a, i)), Ord(CharAt(b, i)))
         ELSE cmpStrFrom(a, b, i + 1)

cmpStr(a, b) == cmpStrFrom(a, b, 1)

\* cmp(a, b) of two lists of strings.
RECURSIVE cmpStrList(_, _)
cmpStrList(a, b) ==
    IF Len(a) = 0 /\ Len(b) = 0 THEN 0
    ELSE IF Len(a) = 0 THEN -1
    ELSE IF Len(b) = 0 THEN 1
    ELSE IF cmpStr(a[1], b[1]) # 0 THEN cmpStr(a[1], b[1])
         ELSE cmpStrList(Tail(a), Tail(b))

Last(s) == s[Len(s)]

Front(s) == SubSeq(s, 1, Len(s) - 1)

----------------------------------------------------------------------------
(* datetime.date and dateutil.relativedelta *)

IsLeap(y) == (y % 4 = 0 /\ y % 100 # 0) \/ y % 400 = 0

DaysInMonth(y, m) ==
    IF m = 2 THEN (IF IsLeap(y) THEN 29 ELSE 28)
    ELSE IF m \in {4, 6, 9, 11} THEN 30 ELSE 31

\* date(y, m, d) raises ValueError unless this holds.
DateValid(y, m, d) ==
    /\ y >= 1 /\ y <= 9999
    /\ m >= 1 /\ m <= 12
    /\ d >= 1 /\ d <= DaysInMonth(y, m)

date(y, m, d) == [year |-> y, month |-> m, day |-> d]

DateLt(a, b) ==
    \/ a.year < b.year
    \/ a.year = b.year /\ a.month < b.month
    \/ a.year = b.year /\ a.month = b.month /\ a.day < b.day

DateLe(a, b) == a = b \/ DateLt(a, b)

ClampDay(y, m, d) == IF d > DaysInMonth(y, m) THEN DaysInMonth(y, m) ELSE d

\* dt + relativedelta(years=n), n >= 0
AddYears(dt, n) == date(dt.year + n, dt.month, ClampDay(dt.year + n, dt.month, dt.day))

\* dt + relativedelta(months=n), n >= 0
AddMonths(dt, n) ==
    LET total == (dt.month - 1) + n
        y == dt.year + total \div 12
        m == (total % 12) + 1
    IN date(y, m, ClampDay(y, m, dt.day))

NextDay(dt) ==
    IF dt.day < DaysInMonth(dt.year, dt.month) THEN date(dt.year, dt.month, dt.day + 1)
    ELSE IF dt.month < 12 THEN date(dt.year, dt.month + 1, 1)
    ELSE date(dt.year + 1, 1, 1)

\* dt + relativedelta(days=n), n >= 0
RECURSIVE AddDays(_, _)
AddDays(dt, n) == IF n = 0 THEN dt ELSE AddDays(NextDay(dt), n - 1)

----------------------------------------------------------------------------
(* DateRangeType *)

\* Regular expressions are strings over: d (a digit, \d), . (any character but
\* a newline) and characters that stand for themselves.
_y == "dddd"

_ym == "dddd-dd"

_ymd == "dddd-dd-dd"

\* DateRangeType.__init__: the pattern is ^(regex)$ for a single type and
\* ^(regex)..(regex)$ for a range; the two dots are not escaped.
DateRangeType(level, single, label, regex) ==
    [level |-> level, single |-> single, label |-> label,
     regex |-> IF single THEN regex ELSE regex \o ".." \o regex,
     width |-> Len(regex)]

YEARGROUP == DateRangeType(1, FALSE, "year", _y)

YEAR == DateRangeType(1, TRUE, "year", _y)

MONTHGROUP == DateRangeType(2, FALSE, "month", _ym)

MONTH == DateRangeType(2, TRUE, "month", _ym)

DAYGROUP == DateRangeType(3, FALSE, "day", _ymd)

DAY == DateRangeType(3, TRUE, "day", _ymd)

\* DateRangeType.all.values()
DateRangeTypeAll == {YEARGROUP, YEAR, MONTHGROUP, MONTH, DAYGROUP, DAY}

\* What drilldown returns at the last level (Python's None), as a range type.
NoRangeType == [level |-> 0, single |-> FALSE, label |-> "None", regex |-> "", width |-> 0]

\* DateRangeType.get: a LookupError (KeyError) when the pair is not registered.
DateRangeTypeGetRaises(level, single) ==
    ~ \E rt \in DateRangeTypeAll : rt.level = level /\ rt.single = single

DateRangeTypeGet(level, single) ==
    CHOOSE rt \in DateRangeTypeAll : rt.level = level /\ rt.single = single

\* DateRangeType.__cmp__: cmp((level, single), (level, single)), False < True.
cmpRangeType(a, b) ==
    IF a.level # b.level THEN cmpInt(a.level, b.level)
    ELSE cmpInt(IF a.single THEN 1 ELSE 0, IF b.single THEN 1 ELSE 0)

\* getattr(dt, range_type.dateattr)
dateattr(range_type, dt) ==
    CASE range_type.label = "year" -> dt.year
      [] range_type.label = "month" -> dt.month
      [] range_type.label = "day" -> dt.day

\* dt.replace(**{range_type.dateattr: val})
replace(range_type, dt, val) ==
    CASE range_type.label = "year" -> date(val, dt.month, dt.day)
      [] range_type.label = "month" -> date(dt.year, val, dt.day)
      [] range_type.label = "day" -> date(dt.year, dt.month, val)

replaceRaises(range_type, dt, val) ==
    LET d == replace(range_type, dt, val) IN ~ DateValid(d.year, d.month, d.day)

\* dt + relativedelta(**{range_type.relativedeltaattr: n})
relativedelta(range_type, dt, n) ==
    CASE range_type.label = "year" -> AddYears(dt, n)
      [] range_type.label = "month" -> AddMonths(dt, n)
      [] range_type.label = "day" -> AddDays(dt, n)

\* drilldown with a range drilled to the next level, like a single value.
drilldown_always_deeper(range_type) ==
    IF range_type.level = 3 THEN NoRangeType
    ELSE DateRangeTypeGet(range_type.level + 1, TRUE)

drilldown(range_type) ==
    IF range_type = DAY THEN NoRangeType
    ELSE IF ~ range_type.single THEN DateRangeTypeGet(range_type.level, TRUE)
    ELSE DateRangeTypeGet(range_type.level + 1, TRUE)

\* One character of a pattern against one character of the text.
CharMatches(p, c) ==
    IF p = "d" THEN c \in Digits
    ELSE IF p = "." THEN c # "\n"
    ELSE c = p

\* The pattern without its $: a match of the start of the text.
RegexMatches_unanchored(regex, param) ==
    /\ Len(param) >= Len(regex)
    /\ \A i \in 1..Len(regex) : CharMatches(CharAt(regex, i), CharAt(param, i))

\* regex.match(param) is not None. The pattern is anchored at both ends and
\* Python's $ also matches just before a newline that ends the text.
RegexMatches(regex, param) ==
    /\ \/ Len(param) = Len(regex)
       \/ Len(param) = Len(regex) + 1 /\ CharAt(param, Len(param)) = "\n"
    /\ \A i \in 1..Len(regex) : CharMatches(CharAt(regex, i), CharAt(param, i))

\* list(m.groups())
groups(range_type, param) ==
    IF range_type.single THEN << SubSeq(param, 1, range_type.width) >>
    ELSE << SubSeq(param, 1, range_type.width),
            SubSeq(param, range_type.width + 3, 2 * range_type.width + 2) >>

----------------------------------------------------------------------------
(* DateChoice *)

DateChoice(range_type, values) == [range_type |-> range_type, values |-> values]

\* DateChoice.__unicode__
unicode(choice) == join("..", choice.values)

\* DateChoice.__cmp__
cmpChoice(a, b) ==
    IF cmpRangeType(a.range_type, b.range_type) # 0
    THEN cmpRangeType(a.range_type, b.range_type)
    ELSE cmpStrList(a.values, b.values)

\* django.utils.dates.MONTHS, a dictionary with the keys 1..12
MONTHS ==
    << "January", "February", "March", "April", "May", "June", "July",
       "August", "September", "October", "November", "December" >>

\* DateChoice.display of a single choice: MONTHS[...] raises KeyError for a
\* month outside 1..12.
displaySingleRaises(range_type, value) ==
    /\ range_type = MONTH
    /\ \/ Len(split(value)) < 2
       \/ int(split(value)[2]) \notin 1..12

displaySingle(range_type, value) ==
    LET parts == split(value)
    IN IF range_type = YEAR THEN parts[1]
       ELSE IF range_type = MONTH THEN MONTHS[int(parts[2])]
       ELSE str(int(Last(parts)))

displayRaises(choice) ==
    IF choice.range_type.single
    THEN displaySingleRaises(choice.range_type, choice.values[1])
    ELSE \E i \in 1..Len(choice.values) :
            displaySingleRaises(DateRangeTypeGet(choice.range_type.level, TRUE),
                                choice.values[i])

display(choice) ==
    IF choice.range_type.single
    THEN displaySingle(choice.range_type, choice.values[1])
    ELSE join("-", [i \in 1..Len(choice.values) |->
                      displaySingle(DateRangeTypeGet(choice.range_type.level, TRUE),
                                    choice.values[i])])

datetime_to_value(range_type, dt) ==
    IF range_type = YEAR THEN Fmt(dt.year, 4)
    ELSE IF range_type = MONTH THEN Fmt(dt.year, 4) \o "-" \o Fmt(dt.month, 2)
    ELSE Fmt(dt.year, 4) \o "-" \o Fmt(dt.month, 2) \o "-" \o Fmt(dt.day, 2)

from_datetime(range_type, dt) ==
    DateChoice(range_type, << datetime_to_value(range_type, dt) >>)

from_datetime_range(range_type, dt1, dt2) ==
    DateChoice(DateRangeTypeGet(range_type.level, FALSE),
               << datetime_to_value(range_type, dt1),
                  datetime_to_value(range_type, dt2) >>)

\* DateChoice.from_param: the first type, in the registry's iteration order,
\* whose pattern matches; ValueError when none does.
from_paramRaises(param, order) ==
    \A i \in 1..Len(order) : ~ RegexMatches(order[i].regex, param)

RECURSIVE from_param(_, _)
from_param(param, order) ==
    IF Len(order) = 0 THEN DateChoice(NoRangeType, << >>)
    ELSE IF RegexMatches(order[1].regex, param)
         THEN DateChoice(order[1], groups(order[1], param))
         ELSE from_param(param, Tail(order))

\* The parts of a value as integers, the missing ones filled with 1.
DateParts(value) ==
    LET parts == split(value)
    IN [i \in 1..3 |-> IF i <= Len(parts) THEN int(parts[i]) ELSE 1]

\* DateChoice.make_lookup: date(...) raises ValueError for parts that name no
\* calendar date.
make_lookupRaises(choice) ==
    LET start_parts == DateParts(choice.values[1])
        end_parts == DateParts(Last(choice.values))
    IN \/ ~ DateValid(start_parts[1], start_parts[2], start_parts[3])
       \/ ~ DateValid(end_parts[1], end_parts[2], end_parts[3])

\* make_lookup without the step that adds one year, month or day to the end.
make_lookup_end_not_advanced(choice) ==
    LET start_parts == DateParts(choice.values[1])
        end_parts == DateParts(Last(choice.values))
    IN [gte |-> date(start_parts[1], start_parts[2], start_parts[3]),
        lt |-> date(end_parts[1], end_parts[2], end_parts[3])]

make_lookup(choice) ==
    LET start == choice.values[1]
        end == IF choice.range_type.single THEN choice.values[1] ELSE choice.values[2]
        start_parts == DateParts(start)
        end_parts == DateParts(end)
        start_date == date(start_parts[1], start_parts[2], start_parts[3])
        end_date == date(end_parts[1], end_parts[2], end_parts[3])
    IN [gte |-> start_date, lt |-> relativedelta(choice.range_type, end_date, 1)]

----------------------------------------------------------------------------
(* The store: QuerySet.filter, QuerySet.aggregate, QuerySet.dates and        *)
(* queries.date_aggregation. A query set is the set of its records' dates.  *)

\* qs.filter(field__gte=lookup.gte, field__lt=lookup.lt)
filter(qs, lookup) == {d \in qs : DateLe(lookup.gte, d) /\ DateLt(d, lookup.lt)}

\* qs.aggregate(first=Min(field), last=Max(field)), for a query set with records
Min(qs) == CHOOSE d \in qs : \A e \in qs : DateLe(d, e)

Max(qs) == CHOOSE d \in qs : \A e \in qs : DateLe(e, d)

\* A date truncated to year, month or day, as QuerySet.dates(field, kind) gives it.
Truncate(range_type, dt) ==
    CASE range_type.label = "year" -> date(dt.year, 1, 1)
      [] range_type.label = "month" -> date(dt.year, dt.month, 1)
      [] range_type.label = "day" -> dt

RECURSIVE Ascending(_)
Ascending(dates) ==
    IF dates = {} THEN << >>
    ELSE << Min(dates) >> \o Ascending(dates \ {Min(dates)})

\* date_aggregation(qs.dates(field, range_type.label)): one row (date, count)
\* for each distinct truncated date, ascending.
date_aggregation(qs, range_type) ==
    LET units == Ascending({Truncate(range_type, d) : d \in qs})
    IN [i \in 1..Len(units) |->
          << units[i], Cardinality({d \in qs : Truncate(range_type, d) = units[i]}) >>]

----------------------------------------------------------------------------
(* FilterChoice and the parameters *)

FILTER_ADD == "add"

FILTER_REMOVE == "remove"

FILTER_DISPLAY == "display"

\* The count of a choice that has none (Python's None, which sorts below
\* every number).
NoneCount == -1

\* The params of a choice that has none (None), and params that are there.
NoneParams == << >>

FilterChoice(label, count, params, link_type) ==
    [label |-> label, count |-> count, params |-> params, link_type |-> link_type]

\* The request's parameters: the values of the filter's own query parameter,
\* of 'page' and of another field's parameter; no values: the key is absent.
Params(field, page, other) == [field |-> field, page |-> page, other |-> other]

\* list.remove(r): the list without the first element equal to r.
RECURSIVE remove(_, _)
remove(list, r) ==
    IF Len(list) = 0 THEN list
    ELSE IF cmpChoice(list[1], r) = 0 THEN Tail(list)
    ELSE << list[1] >> \o remove(Tail(list), r)

RECURSIVE removeAll(_, _)
removeAll(list, rs) ==
    IF Len(rs) = 0 THEN list ELSE removeAll(remove(list, rs[1]), Tail(rs))

\* choice in chosen
In(choice, chosen) == \E i \in 1..Len(chosen) : cmpChoice(chosen[i], choice) = 0

\* Filter.param_from_choices
param_from_choices(choices) == [i \in 1..Len(choices) |-> unicode(choices[i])]

\* The end of Filter.build_params: the chosen list written back, 'page' popped.
params_with(self, chosen) ==
    Params(IF Len(chosen) > 0 THEN param_from_choices(chosen) ELSE << >>,
           << >>,
           self.params.other)

\* Filter.build_params(add=add)
build_params_add(self, add) ==
    params_with(self, IF In(add, self.chosen) THEN self.chosen
                      ELSE Append(self.chosen, add))

\* Filter.build_params(remove=to_remove)
build_params_remove(self, to_remove) ==
    params_with(self, removeAll(self.chosen, to_remove))

----------------------------------------------------------------------------
(* Filter, RangeFilterMixin *)

\* list.sort() of DateChoices: insertion keeps equal elements in order.
RECURSIVE insert(_, _)
insert(sorted, c) ==
    IF Len(sorted) = 0 THEN << c >>
    ELSE IF cmpChoice(c, Last(sorted)) >= 0 THEN Append(sorted, c)
    ELSE Append(insert(Front(sorted), c), Last(sorted))

RECURSIVE sort(_)
sort(list) == IF Len(list) = 0 THEN list ELSE insert(sort(Front(list)), Last(list))

\* Filter.choices_from_params: the values that from_param accepts, in order.
RECURSIVE parsed_params(_, _)
parsed_params(plist, order) ==
    IF Len(plist) = 0 THEN << >>
    ELSE (IF from_paramRaises(plist[1], order) THEN << >>
          ELSE << from_param(plist[1], order) >>)
         \o parsed_params(Tail(plist), order)

\* The choices left in the order of the parameter values.
choices_from_params_unsorted(params, order) == parsed_params(params.field, order)

\* RangeFilterMixin.choices_from_params
choices_from_params(params, order) == sort(parsed_params(params.field, order))

\* Filter.apply_filter: the choices are taken from the end of the list.
RECURSIVE apply_filterRaises(_)
apply_filterRaises(chosen) ==
    /\ Len(chosen) > 0
    /\ \/ make_lookupRaises(Last(chosen))
       \/ apply_filterRaises(Front(chosen))

RECURSIVE apply_filter(_, _)
apply_filter(chosen, qs) ==
    IF Len(chosen) = 0 THEN qs
    ELSE apply_filter(Front(chosen), filter(qs, make_lookup(Last(chosen))))

\* RangeFilterMixin.get_choices_remove
get_choices_removeRaises(self) ==
    \E i \in 1..Len(self.chosen) : displayRaises(self.chosen[i])

get_choices_remove(self) ==
    [i \in 1..Len(self.chosen) |->
        LET choice == self.chosen[i]
            to_remove == SelectSeq(self.chosen, LAMBDA c : cmpChoice(c, choice) >= 0)
        IN FilterChoice(display(choice), NoneCount,
                        << build_params_remove(self, to_remove) >>,
                        FILTER_REMOVE)]

\* The entry that stands for a lone ADD choice loses its count.
normalize_add_choices_without_count(self, choices) ==
    LET addchoices == {i \in 1..Len(choices) : choices[i].link_type = FILTER_ADD}
    IN IF Cardinality(addchoices) = 1 /\ ~ self.null
       THEN [i \in 1..Len(choices) |->
               IF i \in addchoices
               THEN FilterChoice(choices[i].label, NoneCount, NoneParams, FILTER_DISPLAY)
               ELSE choices[i]]
       ELSE choices

\* SingleValueMixin.normalize_add_choices
normalize_add_choices(self, choices) ==
    LET addchoices == {i \in 1..Len(choices) : choices[i].link_type = FILTER_ADD}
    IN IF Cardinality(addchoices) = 1 /\ ~ self.null
       THEN [i \in 1..Len(choices) |->
               IF i \in addchoices
               THEN FilterChoice(choices[i].label, choices[i].count, NoneParams,
                                 FILTER_DISPLAY)
               ELSE choices[i]]
       ELSE choices

\* choices.sort(key=attrgetter('count'), reverse=True): stable, None last.
RECURSIVE insert_by_count(_, _)
insert_by_count(sorted, c) ==
    IF Len(sorted) = 0 THEN << c >>
    ELSE IF Last(sorted).count >= c.count THEN Append(sorted, c)
    ELSE Append(insert_by_count(Front(sorted), c), Last(sorted))

RECURSIVE sort_by_count(_)
sort_by_count(list) ==
    IF Len(list) = 0 THEN list
    ELSE insert_by_count(sort_by_count(Front(list)), Last(list))

\* Filter.sort_choices
sort_choices(self, choices) ==
    IF self.order_by_count THEN sort_by_count(choices) ELSE choices

----------------------------------------------------------------------------
(* DateTimeFilter *)

\* DateTimeFilter.max_depth_levels[max_depth]; "none" stands for None.
max_depth_levels(max_depth) ==
    CASE max_depth = "year" -> YEAR.level
      [] max_depth = "month" -> MONTH.level
      [] max_depth = "none" -> DAY.level + 1

\* int(math.ceil(float(a) / b)), b > 0
CeilDiv(a, b) == -((-a) \div b)

\* first taken from the first row for months and days too, not fixed at 1.
collapse_first_of_rows(results, range_type) == dateattr(range_type, results[1][1])

\* collapse_results, the bounds of the unit axis (first, last).
collapse_first(results, range_type) ==
    IF range_type = MONTH THEN 1
    ELSE IF range_type = DAY THEN 1
    ELSE results[1][1].year

collapse_last(results, range_type) ==
    IF range_type = MONTH THEN 12
    ELSE IF range_type = DAY THEN 31
    ELSE Last(results)[1].year

\* The bucket size rounded down, not up.
collapse_bucketsize_floor(max_links, results, range_type) ==
    LET span == collapse_last(results, range_type) - collapse_first(results, range_type) + 1
    IN IF span \div max_links = 0 THEN 1 ELSE span \div max_links

collapse_bucketsize(max_links, results, range_type) ==
    CeilDiv(collapse_last(results, range_type) - collapse_first(results, range_type) + 1,
            max_links)

collapse_numbuckets(max_links, results, range_type) ==
    CeilDiv(collapse_last(results, range_type) - collapse_first(results, range_type) + 1,
            collapse_bucketsize(max_links, results, range_type))

\* collapse_results, the bucket of a row: int(math.floor(float(val - first) / bucketsize))
collapse_bucketnum(max_links, results, range_type, row) ==
    (dateattr(range_type, row[1]) - collapse_first(results, range_type))
        \div collapse_bucketsize(max_links, results, range_type)

\* buckets[bucketnum] of a list of numbuckets buckets: a negative index counts
\* from the end, an index outside the list raises IndexError.
BucketIndex(bucketnum, numbuckets) ==
    IF bucketnum < 0 THEN bucketnum + numbuckets ELSE bucketnum

RECURSIVE SumCounts(_)
SumCounts(rows) == IF Len(rows) = 0 THEN 0 ELSE rows[1][2] + SumCounts(Tail(rows))

\* collapse_results raises: ZeroDivisionError for a bucket size of 0,
\* IndexError for a row outside the buckets, ValueError when a bucket's start
\* is no date (dt_template.replace).
collapse_resultsRaises(max_links, results, range_type) ==
    /\ Len(results) > max_links
    /\ LET first == collapse_first(results, range_type)
           bucketsize == collapse_bucketsize(max_links, results, range_type)
       IN \/ bucketsize = 0
          \/ LET numbuckets == collapse_numbuckets(max_links, results, range_type)
             IN \/ \E r \in 1..Len(results) :
                      LET bucketnum == collapse_bucketnum(max_links, results, range_type,
                                                          results[r])
                      IN bucketnum >= numbuckets \/ bucketnum < -numbuckets
                \/ \E i \in 0..(numbuckets - 1) :
                      replaceRaises(range_type, results[1][1], first + bucketsize * i)

\* collapse_results without the collapse: one choice for each row.
collapse_results_never(max_links, results, range_type) ==
    [n \in 1..Len(results) |->
        << from_datetime(range_type, results[n][1]), results[n][2] >>]

collapse_results(max_links, results, range_type) ==
    IF Len(results) > max_links
    THEN LET first == collapse_first(results, range_type)
             bucketsize == collapse_bucketsize(max_links, results, range_type)
             numbuckets == collapse_numbuckets(max_links, results, range_type)
             dt_template == results[1][1]
         IN [n \in 1..numbuckets |->
               LET i == n - 1
                   bucket == SelectSeq(results, LAMBDA row :
                                 BucketIndex(collapse_bucketnum(max_links, results,
                                                                range_type, row),
                                             numbuckets) = i)
                   start_val == first + bucketsize * i
                   start_date == replace(range_type, dt_template, start_val)
                   end_date == relativedelta(range_type, start_date, bucketsize - 1)
               IN << from_datetime_range(range_type, start_date, end_date),
                     SumCounts(bucket) >>]
    ELSE [n \in 1..Len(results) |->
            << from_datetime(range_type, results[n][1]), results[n][2] >>]

\* The bridge entries of every level, whatever max_depth is.
RECURSIVE bridge_from_any_depth(_, _, _, _)
bridge_from_any_depth(self, chosen_level, new_level, new_choice) ==
    IF ~ (chosen_level < new_level - 1) THEN << >>
    ELSE << FilterChoice(display(DateChoice(DateRangeTypeGet(chosen_level + 1, TRUE),
                                            new_choice.values)),
                         NoneCount, NoneParams, FILTER_DISPLAY) >>
         \o bridge_from_any_depth(self, chosen_level + 1, new_level, new_choice)

\* DateTimeFilter.bridge_choices
RECURSIVE bridge_from(_, _, _, _)
bridge_from(self, chosen_level, new_level, new_choice) ==
    IF ~ (chosen_level < new_level - 1) THEN << >>
    ELSE (IF chosen_level + 1 > max_depth_levels(self.max_depth) THEN << >>
          ELSE << FilterChoice(display(DateChoice(DateRangeTypeGet(chosen_level + 1, TRUE),
                                                  new_choice.values)),
                               NoneCount, NoneParams, FILTER_DISPLAY) >>)
         \o bridge_from(self, chosen_level + 1, new_level, new_choice)

bridge_choices(self, chosen, choices) ==
    IF Len(choices) = 0 THEN << >>
    ELSE bridge_from(self,
                     IF Len(chosen) = 0 THEN 0 ELSE Last(chosen).range_type.level,
                     choices[1][1].range_type.level,
                     choices[1][1])

\* The months compared before the years: two Januaries of different years
\* count as one month.
add_range_type_months_first(self, qs) ==
    IF Len(self.chosen) > 0 THEN drilldown(Last(self.chosen).range_type)
    ELSE IF qs = {} THEN NoRangeType
    ELSE LET first == Min(qs)
             last == Max(qs)
         IN IF first.month = last.month THEN DAY
            ELSE IF first.year = last.year THEN MONTH
            ELSE YEAR

\* get_choices_add, lines 569-592: the granularity to query; NoRangeType when
\* the method returns [] before it queries the dates.
add_range_type(self, qs) ==
    IF Len(self.chosen) > 0 THEN drilldown(Last(self.chosen).range_type)
    ELSE IF qs = {} THEN NoRangeType
    ELSE LET first == Min(qs)
             last == Max(qs)
         IN IF first.year = last.year
            THEN (IF first.month = last.month THEN DAY ELSE MONTH)
            ELSE YEAR

\* The minimum and maximum queried whether or not something is chosen.
add_queries_always_probe(self, qs) ==
    << "aggregate" >>
    \o (IF add_range_type(self, qs) = NoRangeType THEN << >>
        ELSE << "dates." \o add_range_type(self, qs).label >>)

\* get_choices_add, the round trips to the store, in order: qs.aggregate
\* (the minimum and maximum) and date_aggregation(qs.dates(field, label)).
add_queries(self, qs) ==
    (IF Len(self.chosen) = 0 THEN << "aggregate" >> ELSE << >>)
    \o (IF add_range_type(self, qs) = NoRangeType THEN << >>
        ELSE << "dates." \o add_range_type(self, qs).label >>)

\* get_choices_add, lines 594-597
add_date_choice_counts(self, qs) ==
    collapse_results(self.max_links,
                     date_aggregation(qs, add_range_type(self, qs)),
                     add_range_type(self, qs))

get_choices_addRaises(self, qs) ==
    /\ add_range_type(self, qs) # NoRangeType
    /\ collapse_resultsRaises(self.max_links,
                              date_aggregation(qs, add_range_type(self, qs)),
                              add_range_type(self, qs))

\* The ADD choices of every level, whatever max_depth is.
RECURSIVE add_links_any_depth(_, _, _)
add_links_any_depth(self, range_type, date_choice_counts) ==
    IF Len(date_choice_counts) = 0 THEN << >>
    ELSE LET date_choice == date_choice_counts[1][1]
             count == date_choice_counts[1][2]
         IN (IF In(date_choice, self.chosen) THEN << >>
             ELSE << FilterChoice(display(date_choice), count,
                                  << build_params_add(self, date_choice) >>,
                                  FILTER_ADD) >>)
            \o add_links_any_depth(self, range_type, Tail(date_choice_counts))

\* get_choices_add, lines 604-616
RECURSIVE add_links(_, _, _)
add_links(self, range_type, date_choice_counts) ==
    IF Len(date_choice_counts) = 0 THEN << >>
    ELSE LET date_choice == date_choice_counts[1][1]
             count == date_choice_counts[1][2]
         IN (IF In(date_choice, self.chosen) THEN << >>
             ELSE IF range_type.level > max_depth_levels(self.max_depth) THEN << >>
             ELSE << FilterChoice(display(date_choice), count,
                                  << build_params_add(self, date_choice) >>,
                                  FILTER_ADD) >>)
            \o add_links(self, range_type, Tail(date_choice_counts))

get_choices_add(self, qs) ==
    IF add_range_type(self, qs) = NoRangeType THEN << >>
    ELSE LET date_choice_counts == add_date_choice_counts(self, qs)
         IN bridge_choices(self, self.chosen, date_choice_counts)
            \o add_links(self, add_range_type(self, qs), date_choice_counts)

\* ChooseAgainMixin.get_choices
get_choicesRaises(self, qs) ==
    get_choices_removeRaises(self) \/ get_choices_addRaises(self, qs)

get_choices(self, qs) ==
    get_choices_remove(self)
    \o sort_choices(self, normalize_add_choices(self, get_choices_add(self, qs)))

----------------------------------------------------------------------------
(* The state: one store, one filter configuration, and the requests made   *)
(* of a DateTimeFilter: it is built from the request's parameters, applied  *)
(* to the store, asked for its choices on the filtered query set, and the   *)
(* user follows one of the links it returned.                               *)

VARIABLES
    store,          \* the dates of the records of the model's table
    max_links,      \* DateTimeFilter(max_links=...)
    max_depth,      \* DateTimeFilter(max_depth=...): "year", "month", "none"
    null,           \* field_obj.null
    order_by_count, \* Filter(order_by_count=...)
    params,         \* the request's parameters
    pc,             \* "request", "built", "applied", "done", "raised"
    chosen,         \* self.chosen
    qs,             \* what apply_filter returned
    choices,        \* what get_choices returned
    queries,        \* the store round trips of the get_choices call, in order
    raised,         \* the exception that ended the call, "" for none
    via,            \* the link that led to this request, the selection it was on,
                    \*   and whether only ADD links led here from no selection
    results,        \* collapse_results called on its own: the rows given
    range_type,     \*   the granularity given
    date_choice_counts, \* what it returned
    choice,         \* a DateChoice encoded and parsed on its own
    param,          \*   unicode(choice)
    parsed          \*   from_param(param)

filterVars == << store, max_depth, null, order_by_count, params, chosen, qs,
                 choices, queries, via >>

collapseVars == << results, range_type, date_choice_counts >>

roundTripVars == << choice, param, parsed >>

vars == << filterVars, collapseVars, roundTripVars, max_links, pc, raised >>

\* Bounds of the model.
MaxRecords == 4

MaxLinks == 2

\* The dates a record can have: the first day of five years, and in the
\* second year three days of January and the first days of three months.
StoreDates ==
    {date(y, 1, 1) : y \in 1813..1817}
    \cup {date(1814, 1, 2), date(1814, 1, 3), date(1814, 2, 1), date(1814, 3, 1)}

\* The orders in which DateRangeType.all (a dict) may be iterated: from_param
\* returns the first type that matches, and each type comes first in one of
\* these six orders, so they give every result that any order can give.
RegistryOrders ==
    LET defined == << YEARGROUP, YEAR, MONTHGROUP, MONTH, DAYGROUP, DAY >>
    IN {[i \in 1..6 |-> defined[((i + k - 1) % 6) + 1]] : k \in 0..5}

NoLink == [link_type |-> "none", chosen |-> << >>, adds_only |-> TRUE]

self == [max_links |-> max_links, max_depth |-> max_depth, null |-> null,
         order_by_count |-> order_by_count, params |-> params, chosen |-> chosen]

\* A request that has just arrived: no filter built yet.
NewRequest ==
    /\ pc = "request"
    /\ chosen = << >>
    /\ qs = {}
    /\ choices = << >>
    /\ queries = << >>
    /\ raised = ""

NoCollapseCall ==
    /\ results = << >>
    /\ range_type = NoRangeType
    /\ date_choice_counts = << >>

NoRoundTrip ==
    /\ choice = DateChoice(NoRangeType, << >>)
    /\ param = ""
    /\ parsed = DateChoice(NoRangeType, << >>)

\* Any store, any configuration, and a first request without parameters.
Init ==
    /\ store \in {s \in SUBSET StoreDates : Cardinality(s) <= MaxRecords}
    /\ max_links \in 1..MaxLinks
    /\ max_depth \in {"year", "month", "none"}
    /\ null \in BOOLEAN
    /\ order_by_count \in BOOLEAN
    /\ params = Params(<< >>, << >>, << >>)
    /\ via = NoLink
    /\ NewRequest
    /\ NoCollapseCall
    /\ NoRoundTrip

\* Filter.__init__ (DateTimeFilter.__init__): self.chosen
Construct ==
    /\ pc = "request"
    /\ \E order \in RegistryOrders : chosen' = choices_from_params(params, order)
    /\ pc' = "built"
    /\ UNCHANGED << store, max_links, max_depth, null, order_by_count, params,
                    qs, choices, queries, raised, via, collapseVars, roundTripVars >>

\* Filter.apply_filter(Model.objects.all())
ApplyFilter ==
    /\ pc = "built"
    /\ IF apply_filterRaises(chosen)
       THEN /\ pc' = "raised"
            /\ raised' = "ValueError"
            /\ qs' = qs
       ELSE /\ pc' = "applied"
            /\ raised' = raised
            /\ qs' = apply_filter(chosen, store)
    /\ UNCHANGED << store, max_links, max_depth, null, order_by_count, params,
                    chosen, choices, queries, via, collapseVars, roundTripVars >>

\* ChooseAgainMixin.get_choices(qs), qs the filtered query set
GetChoices ==
    /\ pc = "applied"
    /\ IF get_choices_removeRaises(self)
       THEN /\ pc' = "raised"
            /\ raised' = "KeyError"
            /\ choices' = choices
            /\ queries' = queries
       ELSE IF get_choices_addRaises(self, qs)
       THEN /\ pc' = "raised"
            /\ raised' = "ValueError"
            /\ choices' = choices
            /\ queries' = add_queries(self, qs)
       ELSE /\ pc' = "done"
            /\ raised' = raised
            /\ choices' = get_choices(self, qs)
            /\ queries' = add_queries(self, qs)
    /\ UNCHANGED << store, max_links, max_depth, null, order_by_count, params,
                    chosen, qs, via, collapseVars, roundTripVars >>

\* The user follows the link of choice i: the next request has its params.
FollowLink(i) ==
    /\ pc = "done"
    /\ choices[i].params # NoneParams
    /\ params' = choices[i].params[1]
    /\ via' = [link_type |-> choices[i].link_type, chosen |-> chosen,
                adds_only |-> via.adds_only /\ choices[i].link_type = FILTER_ADD]
    /\ pc' = "request"
    /\ chosen' = << >>
    /\ qs' = {}
    /\ choices' = << >>
    /\ queries' = << >>
    /\ raised' = ""
    /\ UNCHANGED << store, max_links, max_depth, null, order_by_count,
                    collapseVars, roundTripVars >>

Next ==
    \/ Construct
    \/ ApplyFilter
    \/ GetChoices
    \/ \E i \in 1..Len(choices) : FollowLink(i)

Spec == Init /\ [][Next]_vars

----------------------------------------------------------------------------
(* Requests whose parameters the user wrote: any short list of strings,    *)
(* well formed or not, as the values of the date field's parameter.         *)

MaxParams == 2

\* Values of the three single formats and of a range, the ill-formed value of
\* the tests (filterset.py line 380), a range with another separator, a value
\* followed by a newline, values that name no month or no day, a range
\* whose ends have different formats, and a range that ends before it starts.
RawParams ==
    { "1813", "1813-02", "1813-02-01", "1813..1814",
      "1818xx", "1813xx1814", "1813\n", "1813-13", "1813-02-30", "1813..1813-02",
      "1814..1813" }

ParamStoreDates == {date(1813, 1, 1), date(1813, 2, 1), date(1815, 1, 1)}

RECURSIVE ListsUpTo(_, _)
ListsUpTo(S, n) ==
    IF n = 0 THEN {<< >>}
    ELSE ListsUpTo(S, n - 1)
         \cup {Append(l, x) : l \in {m \in ListsUpTo(S, n - 1) : Len(m) = n - 1}, x \in S}

InitParams ==
    /\ store \in SUBSET ParamStoreDates
    /\ max_links \in 1..MaxLinks
    /\ max_depth = "none"
    /\ null = FALSE
    /\ order_by_count = FALSE
    /\ params \in {Params(field, page, << "genre-7" >>) :
                     field \in ListsUpTo(RawParams, MaxParams),
                     page \in {<< >>, << "2" >>}}
    /\ via = [NoLink EXCEPT !.adds_only = (Len(params.field) = 0)]
    /\ NewRequest
    /\ NoCollapseCall
    /\ NoRoundTrip

SpecParams == InitParams /\ [][Next]_vars

----------------------------------------------------------------------------
(* collapse_results called on its own, on any short ascending list of rows  *)
(* of one granularity: the dates are truncated as QuerySet.dates gives      *)
(* them, and the rows of months and of days come from two years and months. *)

MaxRows == 6

MaxCollapseLinks == 5

MaxCount == 2

YearRows == {date(y, 1, 1) : y \in 1813..1819}

MonthRows ==
    {date(1813, m, 1) : m \in {1, 2, 6, 7, 12}} \cup {date(1814, m, 1) : m \in {1, 12}}

DayRows ==
    {date(1813, 2, d) : d \in {1, 2, 15, 16, 27, 28}} \cup {date(1813, 3, 1)}

RowDates(rt) == IF rt = YEAR THEN YearRows ELSE IF rt = MONTH THEN MonthRows ELSE DayRows

\* The rows of the dates given, ascending, with the counts given.
Rows(dates, counts) ==
    LET asc == Ascending(dates) IN [i \in 1..Len(asc) |-> << asc[i], counts[i] >>]

InitCollapse ==
    /\ range_type \in {YEAR, MONTH, DAY}
    /\ max_links \in 1..MaxCollapseLinks
    /\ \E dates \in {s \in SUBSET RowDates(range_type) : Cardinality(s) <= MaxRows} :
          \E counts \in [1..Cardinality(dates) -> 1..MaxCount] :
             results = Rows(dates, counts)
    /\ date_choice_counts = << >>
    /\ pc = "call"
    /\ raised = ""
    /\ store = {}
    /\ max_depth = "none"
    /\ null = FALSE
    /\ order_by_count = FALSE
    /\ params = Params(<< >>, << >>, << >>)
    /\ chosen = << >>
    /\ qs = {}
    /\ choices = << >>
    /\ queries = << >>
    /\ via = NoLink
    /\ NoRoundTrip

\* DateTimeFilter.collapse_results(results, range_type)
CollapseResults ==
    /\ pc = "call"
    /\ IF collapse_resultsRaises(max_links, results, range_type)
       THEN /\ pc' = "raised"
            /\ raised' = "ValueError"
            /\ date_choice_counts' = date_choice_counts
       ELSE /\ pc' = "returned"
            /\ raised' = raised
            /\ date_choice_counts' = collapse_results(max_links, results, range_type)
    /\ UNCHANGED << filterVars, roundTripVars, max_links, results, range_type >>

NextCollapse == CollapseResults

SpecCollapse == InitCollapse /\ [][NextCollapse]_vars

----------------------------------------------------------------------------
(* A DateChoice encoded for a URL and parsed again, on its own: any of the  *)
(* six range types, with values of its format (calendar dates or not).      *)

YearValues == {"0000", "1813", "9999"}

MonthValues == {y \o "-" \o m : y \in YearValues, m \in {"00", "02", "12", "99"}}

DayValues == {ym \o "-" \o d : ym \in MonthValues, d \in {"00", "01", "31", "99"}}

ValuesOf(rt) ==
    LET units == IF rt.level = 1 THEN YearValues
                 ELSE IF rt.level = 2 THEN MonthValues ELSE DayValues
    IN IF rt.single THEN {<< v >> : v \in units}
       ELSE {<< v, w >> : v \in units, w \in units}

InitRoundTrip ==
    /\ \E rt \in DateRangeTypeAll : \E values \in ValuesOf(rt) :
          choice = DateChoice(rt, values)
    /\ param = ""
    /\ parsed = DateChoice(NoRangeType, << >>)
    /\ pc = "choice"
    /\ raised = ""
    /\ max_links = 1
    /\ store = {}
    /\ max_depth = "none"
    /\ null = FALSE
    /\ order_by_count = FALSE
    /\ params = Params(<< >>, << >>, << >>)
    /\ chosen = << >>
    /\ qs = {}
    /\ choices = << >>
    /\ queries = << >>
    /\ via = NoLink
    /\ NoCollapseCall

\* DateChoice.__unicode__ (Filter.param_from_choices)
Encode ==
    /\ pc = "choice"
    /\ param' = unicode(choice)
    /\ pc' = "encoded"
    /\ UNCHANGED << filterVars, collapseVars, max_links, raised, choice, parsed >>

\* DateChoice.from_param(param), the registry iterated in any order
Parse ==
    /\ pc = "encoded"
    /\ \E order \in RegistryOrders :
          IF from_paramRaises(param, order)
          THEN /\ pc' = "raised"
               /\ raised' = "ValueError"
               /\ parsed' = parsed
          ELSE /\ pc' = "parsed"
               /\ raised' = raised
               /\ parsed' = from_param(param, order)
    /\ UNCHANGED << filterVars, collapseVars, max_links, choice, param >>

NextRoundTrip == Encode \/ Parse

SpecRoundTrip == InitRoundTrip /\ [][NextRoundTrip]_vars

----------------------------------------------------------------------------
(* Properties *)

\* The years of the rows: "more than one year" when there are several.
RowYears(rows) == {rows[i][1].year : i \in 1..Len(rows)}

\* C1: collapse_results returns, and returns at most max_links pairs, for every
\* ascending list of rows of years, of months and of days and every max_links,
\* the rows of months and days coming from one or from several years and months.
C1_AtMostMaxLinksPairs ==
    /\ pc # "raised"
    /\ pc = "returned" => Len(date_choice_counts) <= max_links

\* What holds of the code: a list that is returned has at most max_links pairs.
ReturnedAtMostMaxLinksPairs ==
    pc = "returned" => Len(date_choice_counts) <= max_links

\* Month rows of two years, more of them than max_links, collapsed.
MonthsOfTwoYearsCollapsed ==
    /\ pc = "returned"
    /\ range_type = MONTH
    /\ Len(results) > max_links
    /\ Cardinality(RowYears(results)) > 1

\* Every row falls in a bucket 0..numbuckets-1 when the collapse triggers.
BucketIndexInRange ==
    (pc \in {"call", "returned", "raised"} /\ Len(results) > max_links) =>
        \A r \in 1..Len(results) :
           collapse_bucketnum(max_links, results, range_type, results[r])
              \in 0..(collapse_numbuckets(max_links, results, range_type) - 1)

\* What holds of the code: the counts of a list that is returned add up to the
\* counts of the rows.
ReturnedCountsPreserved ==
    pc = "returned" => SumCounts(date_choice_counts) = SumCounts(results)

\* C2: for every ascending list of rows collapse_results gives an output whose
\* counts add up to the counts of the rows, collapsed or not, every row falling
\* in one bucket 0..numbuckets-1.
C2_CountsPreserved ==
    /\ BucketIndexInRange
    /\ pc # "raised"
    /\ ReturnedCountsPreserved

\* Rows of several years with different counts, collapsed into fewer buckets.
YearsCollapsedCountsKept ==
    /\ pc = "returned"
    /\ range_type = YEAR
    /\ Len(results) > max_links
    /\ Len(date_choice_counts) < Len(results)
    /\ \E i, j \in 1..Len(results) : results[i][2] # results[j][2]
    /\ SumCounts(date_choice_counts) > Len(results)

\* The values of the parameter that a choice's link writes for the date field.
LinkValues(c) == c.params[1].field

\* C3: after an ADD link is followed, every choice b it added compares >= every
\* choice a that was in the selection when the link was offered, and the REMOVE
\* link of a (the i-th choice returned, for the i-th chosen) no longer has b.
C3_DrillDownRemovedWithParent ==
    (pc = "done" /\ via.link_type = FILTER_ADD) =>
        \A i \in 1..Len(chosen) : \A j \in 1..Len(chosen) :
            (In(chosen[i], via.chosen) /\ ~ In(chosen[j], via.chosen)) =>
                /\ cmpChoice(chosen[j], chosen[i]) >= 0
                /\ \A k \in 1..Len(LinkValues(choices[i])) :
                      LinkValues(choices[i])[k] # unicode(chosen[j])

\* The digits of a value as one number: "1813-02" is 181302.
ValueKey(value) == int(join("", split(value)))

\* The first date of a value (missing month and day are 1).
StartOf(value) ==
    LET k == ValueKey(value)
    IN IF Len(value) = 4 THEN date(k, 1, 1)
       ELSE IF Len(value) = 7 THEN date(k \div 100, k % 100, 1)
       ELSE date(k \div 10000, (k \div 100) % 100, k % 100)

\* The first date after the year, month or day that starts at dt.
UnitAfter(level, dt) ==
    IF level = 1 THEN date(dt.year + 1, 1, 1)
    ELSE IF level = 2 \/ dt.day = DaysInMonth(dt.year, dt.month)
         THEN (IF dt.month = 12 THEN date(dt.year + 1, 1, 1)
               ELSE date(dt.year, dt.month + 1, 1))
         ELSE date(dt.year, dt.month, dt.day + 1)

Selects(c, d) ==
    /\ DateLe(StartOf(c.values[1]), d)
    /\ DateLt(d, UnitAfter(c.range_type.level, StartOf(Last(c.values))))

\* C4: apply_filter returns exactly the records whose date d has, for every
\* chosen choice, start <= d < end': start the first value completed with 1s,
\* end' the last value completed and moved on by one year, month or day.
C4_FilterKeepsSelectedDates ==
    pc = "applied" =>
        qs = {d \in store : \A i \in 1..Len(chosen) : Selects(chosen[i], d)}

\* A range was chosen and the filter kept some records and dropped others.
C4_Witness ==
    /\ pc = "applied"
    /\ \E i \in 1..Len(chosen) : ~ chosen[i].range_type.single
    /\ qs # {}
    /\ qs # store

AllDigits(str1) == \A i \in 1..Len(str1) : CharAt(str1, i) \in Digits

\* YYYY, YYYY-MM or YYYY-MM-DD, by its length n.
OfSingleForm(str1, n) ==
    /\ Len(str1) = n
    /\ n \in {4, 7, 10}
    /\ AllDigits(SubSeq(str1, 1, 4))
    /\ n >= 7 => (CharAt(str1, 5) = "-" /\ AllDigits(SubSeq(str1, 6, 7)))
    /\ n >= 10 => (CharAt(str1, 8) = "-" /\ AllDigits(SubSeq(str1, 9, 10)))

\* One of the three formats, or A..B with A and B in the same format.
OfDateForm(str1) ==
    \E n \in {4, 7, 10} :
        \/ OfSingleForm(str1, n)
        \/ /\ Len(str1) = 2 * n + 2
           /\ OfSingleForm(SubSeq(str1, 1, n), n)
           /\ SubSeq(str1, n + 1, n + 2) = ".."
           /\ OfSingleForm(SubSeq(str1, n + 3, 2 * n + 2), n)

\* The filter of the same configuration built with no value for the date field.
selfWithoutParam ==
    [self EXCEPT !.params = Params(<< >>, params.page, params.other),
                 !.chosen = << >>]

\* C5: a value that is not of a date form adds nothing to the selection, and
\* when no value of the request is of a date form, apply_filter returns the
\* store unchanged and get_choices returns what the filter built without the
\* parameter returns.
C5_IllFormedValueDropped ==
    pc # "request" =>
        /\ Len(chosen) = Len(SelectSeq(params.field, OfDateForm))
        /\ (\A i \in 1..Len(params.field) : ~ OfDateForm(params.field[i])) =>
              /\ pc # "raised"
              /\ pc \in {"applied", "done"} => qs = store
              /\ pc = "done" => choices = get_choices(selfWithoutParam, store)

\* C6: no request raises, whatever strings it gives for the date field.
C6_NoParameterRaises == pc # "raised" /\ raised = ""

\* C7: a DateChoice of one of the six types, with values of its format, encoded
\* and parsed gives the same choice, the encoded string matching exactly one of
\* the six patterns (so in any order of the registry).
C7_RoundTrip ==
    /\ pc \in {"encoded", "parsed", "raised"} =>
          Cardinality({rt \in DateRangeTypeAll : RegexMatches(rt.regex, param)}) = 1
    /\ pc # "raised"
    /\ pc = "parsed" => parsed = choice

\* A year range, whose encoding is as long as a day's, came back as itself.
C7_Witness ==
    /\ pc = "parsed"
    /\ choice.range_type = YEARGROUP
    /\ parsed = choice
    /\ Len(param) = Len(unicode(DateChoice(DAY, << "1813-02-01" >>)))

IsDatesQuery(q) == q \in {"dates.year", "dates.month", "dates.day"}

\* C8: a get_choices call makes at most two round trips, the minimum/maximum
\* probe only with an empty selection and before the count query; with a
\* selection whose last entry is not a single day it makes exactly one, the
\* count query.
C8_StoreRoundTrips ==
    pc = "done" =>
        /\ Len(queries) <= 2
        /\ \A i \in 1..Len(queries) :
              queries[i] = "aggregate" => (i = 1 /\ Len(chosen) = 0)
        /\ (Len(chosen) > 0 /\ Last(chosen).range_type # DAY) =>
              (Len(queries) = 1 /\ IsDatesQuery(queries[1]))

\* A year range is chosen and the one round trip counts the years in it.
C8_Witness ==
    /\ pc = "done"
    /\ Len(chosen) > 0
    /\ Last(chosen).range_type = YEARGROUP
    /\ queries = << "dates.year" >>

\* C9 as stated: with an empty selection the whole list returned by
\* get_choices, bridge entries included, has at most max_links entries.
C9_WholeListAtMostMaxLinks ==
    (pc = "done" /\ Len(chosen) = 0) => Len(choices) <= max_links

\* The entries that are not bridge entries: a bridge entry has no count.
Counted(list) == SelectSeq(list, LAMBDA c : c.count # NoneCount)

\* C9 amended: with an empty selection the entries other than the DISPLAY
\* bridge entries are at most max_links, and the whole list is at most
\* max_links + 2 entries (the bridges for year and month come on top).
C9_AtMostMaxLinksBesideBridges ==
    (pc = "done" /\ Len(chosen) = 0) =>
        /\ Len(Counted(choices)) <= max_links
        /\ Len(choices) <= max_links + 2

\* Days of one month: max_links choices and the bridges for year and month.
C9_Witness ==
    /\ pc = "done"
    /\ Len(chosen) = 0
    /\ Len(Counted(choices)) = max_links
    /\ Len(choices) = max_links + 2

AddLabels(list) ==
    LET adds == SelectSeq(list, LAMBDA c : c.link_type = FILTER_ADD)
    IN [i \in 1..Len(adds) |-> adds[i].label]

\* The distinct years of the records, ascending, as '%04d'.
YearLabels(dates) ==
    LET years == Ascending({date(d.year, 1, 1) : d \in dates})
    IN [i \in 1..Len(years) |-> Fmt(years[i].year, 4)]

SameElements(a, b) ==
    /\ Len(a) = Len(b)
    /\ {a[i] : i \in 1..Len(a)} = {b[i] : i \in 1..Len(b)}

\* The label of the granularity the code must query after range type rt.
SuccessorLabel(rt) ==
    IF ~ rt.single THEN rt.label
    ELSE IF rt.level = 1 THEN "month" ELSE "day"

\* C10, the part that holds as stated: what drilldown maps each type to, and
\* that a non-empty selection is followed by one count query at the
\* granularity that follows its last entry.
C10_DrilldownTable ==
    /\ drilldown(DAY) = NoRangeType
    /\ drilldown(YEARGROUP) = YEAR
    /\ drilldown(MONTHGROUP) = MONTH
    /\ drilldown(DAYGROUP) = DAY
    /\ drilldown(YEAR) = MONTH
    /\ drilldown(MONTH) = DAY
    /\ (pc = "done" /\ Len(chosen) > 0 /\ Last(chosen).range_type # DAY) =>
          queries = << "dates." \o SuccessorLabel(Last(chosen).range_type) >>

\* A year range is the last entry chosen and the result set has several years.
YearRangeWithSeveralYears ==
    /\ pc = "done"
    /\ Len(chosen) > 0
    /\ Last(chosen).range_type = YEARGROUP
    /\ Len(YearLabels(qs)) >= 2

\* C10 as stated: ... and a selected year range with data in several of its
\* years is followed by ADD choices for the single years, ascending.
C10_YearRangeThenSingleYears ==
    /\ C10_DrilldownTable
    /\ YearRangeWithSeveralYears => AddLabels(choices) = YearLabels(qs)

\* An ADD choice that adds a range of years: its last value is YYYY..YYYY.
AddsYearRange(c) ==
    LET added == Last(LinkValues(c))
    IN Len(added) = 10 /\ SubSeq(added, 5, 6) = ".."

\* C10 amended: ... is followed by ADD choices for the single years when
\* these are at most max_links (ascending unless order_by_count is set), and
\* by ADD choices for ranges of years when they are more.
C10_YearRangeThenYearsOrBuckets ==
    /\ C10_DrilldownTable
    /\ YearRangeWithSeveralYears =>
          IF Len(YearLabels(qs)) <= max_links
          THEN /\ SameElements(AddLabels(choices), YearLabels(qs))
               /\ ~ order_by_count => AddLabels(choices) = YearLabels(qs)
          ELSE \A i \in 1..Len(choices) :
                  choices[i].link_type = FILTER_ADD => AddsYearRange(choices[i])

\* A year range is chosen and its single years are offered, ascending.
C10_Witness ==
    /\ YearRangeWithSeveralYears
    /\ Len(YearLabels(qs)) <= max_links
    /\ AddLabels(choices) = YearLabels(qs)

\* The granularity at which the records of a result set first differ: "year"
\* when they have several years, "month" when one year and several months,
\* "day" when they are all of one month.
FirstGranularity(dates) ==
    IF Cardinality({d.year : d \in dates}) > 1 THEN "year"
    ELSE IF Cardinality({d.month : d \in dates}) > 1 THEN "month"
    ELSE "day"

\* C11: with an empty selection get_choices_add returns an empty list (after
\* the minimum/maximum probe alone) when the result set has no rows, and
\* otherwise counts days when the minimum and maximum share year and month,
\* months when they share only the year, and years when their years differ.
C11_StartingGranularity ==
    (pc = "done" /\ Len(chosen) = 0) =>
        IF qs = {}
        THEN /\ get_choices_add(self, qs) = << >>
             /\ choices = << >>
             /\ queries = << "aggregate" >>
        ELSE /\ queries = << "aggregate", "dates." \o FirstGranularity(qs) >>
             /\ add_range_type(self, qs).label = FirstGranularity(qs)
             /\ add_range_type(self, qs).single

\* Records of one year and of several months, no selection: months are counted.
C11_Witness ==
    /\ pc = "done"
    /\ Len(chosen) = 0
    /\ Cardinality(qs) >= 3
    /\ queries = << "aggregate", "dates.month" >>

\* The deepest level max_depth allows an entry for.
DepthCap == IF max_depth = "year" THEN 1 ELSE IF max_depth = "month" THEN 2 ELSE 3

\* What a single choice of level L shows for a value: the year, or the name
\* of the month.
LevelLabel(L, value) ==
    IF L = 1 THEN SubSeq(value, 1, 4) ELSE MONTHS[int(SubSeq(value, 6, 7))]

\* The bridge entries expected between the selection and the bucketed results.
ExpectedBridge(selection, counted) ==
    LET chosenLevel == IF Len(selection) = 0 THEN 0
                       ELSE Last(selection).range_type.level
        newLevel == counted[1][1].range_type.level
        levels == SelectSeq(<< 1, 2 >>, LAMBDA L :
                      chosenLevel < L /\ L < newLevel /\ L <= DepthCap)
    IN [n \in 1..Len(levels) |->
          [label |-> LevelLabel(levels[n], counted[1][1].values[1]),
           count |-> NoneCount, params |-> NoneParams, link_type |-> FILTER_DISPLAY]]

\* The bridge_choices call of the get_choices call that has just returned.
BridgeCalled == pc = "done" /\ add_range_type(self, qs) # NoRangeType

\* C12: bridge_choices returns nothing for no bucketed results, and otherwise
\* exactly one DISPLAY entry for each level L with chosenLevel < L < newLevel
\* and L within max_depth, in increasing order of L, labelled with what the
\* first bucketed result shows at level L, without count and without params.
C12_BridgeEntries ==
    BridgeCalled =>
        LET counted == add_date_choice_counts(self, qs)
        IN bridge_choices(self, chosen, counted) =
              IF Len(counted) = 0 THEN << >> ELSE ExpectedBridge(chosen, counted)

\* Days of one month with nothing chosen and max_depth 'year': the bridge has
\* the year and leaves out the month.
C12_Witness ==
    /\ BridgeCalled
    /\ Len(chosen) = 0
    /\ max_depth = "year"
    /\ add_range_type(self, qs) = DAY
    /\ Len(bridge_choices(self, chosen, add_date_choice_counts(self, qs))) = 1

\* A DISPLAY entry of the bridge: it has neither count nor params.
IsBridgeEntry(c) == c.link_type = FILTER_DISPLAY /\ c.count = NoneCount

\* C13: get_choices returns first one REMOVE entry for each chosen choice, in
\* the order of the selection, then the DISPLAY entries of the bridge, then
\* the entries for the choices to add, with order_by_count set or not.
C13_RemoveThenBridgeThenAdd ==
    pc = "done" =>
        /\ Len(choices) >= Len(chosen)
        /\ \A i \in 1..Len(chosen) :
              /\ choices[i].link_type = FILTER_REMOVE
              /\ choices[i].label = display(chosen[i])
        /\ \A i \in (Len(chosen) + 1)..Len(choices) :
              /\ choices[i].link_type # FILTER_REMOVE
              /\ \A j \in (i + 1)..Len(choices) :
                    IsBridgeEntry(choices[j]) => IsBridgeEntry(choices[i])

\* C14 as stated: every REMOVE and every DISPLAY entry returned by get_choices
\* has no count: only ADD entries have one.
C14_OnlyAddEntriesCounted ==
    pc = "done" =>
        \A i \in 1..Len(choices) :
            choices[i].count # NoneCount <=> choices[i].link_type = FILTER_ADD

\* The ADD choices that get_choices_add found, before get_choices normalizes
\* and sorts them.
FoundAdds == SelectSeq(get_choices_add(self, qs), LAMBDA c : c.link_type = FILTER_ADD)

\* The DISPLAY entries of the list returned that carry a count.
CountedDisplays ==
    SelectSeq(choices, LAMBDA c : c.link_type = FILTER_DISPLAY /\ c.count # NoneCount)

\* C14 amended: REMOVE entries have no count and ADD entries have one; a
\* DISPLAY entry has a count exactly when it stands for the only ADD choice
\* found on a non-nullable field (then it carries that choice's label and
\* count and the list has no ADD entry); the bridge's DISPLAY entries have none.
C14_CountsOfEntries ==
    pc = "done" =>
        /\ \A i \in 1..Len(choices) :
              /\ choices[i].link_type = FILTER_REMOVE => choices[i].count = NoneCount
              /\ choices[i].link_type = FILTER_ADD => choices[i].count >= 0
        /\ IF Len(FoundAdds) = 1 /\ ~ null
           THEN /\ Len(CountedDisplays) = 1
                /\ CountedDisplays[1].label = FoundAdds[1].label
                /\ CountedDisplays[1].count = FoundAdds[1].count
                /\ \A i \in 1..Len(choices) : choices[i].link_type # FILTER_ADD
           ELSE Len(CountedDisplays) = 0

\* A selected year with records of one month: the month is shown, not
\* offered, with the number of its records, below the REMOVE entry.
C14_Witness ==
    /\ pc = "done"
    /\ Len(chosen) = 1
    /\ Len(CountedDisplays) = 1
    /\ CountedDisplays[1].count >= 2

\* The rows that collapse_results puts in its bucket n (the n-th pair returned).
RowsOfBucket(n) ==
    SelectSeq(results, LAMBDA row :
        BucketIndex(collapse_bucketnum(max_links, results, range_type, row),
                    collapse_numbuckets(max_links, results, range_type)) = n - 1)

\* C15: when the collapse triggers, every pair that collapse_results returns
\* has at least one of the rows in its bucket, and so a count of at least one.
C15_NoEmptyBucket ==
    (pc = "returned" /\ Len(results) > max_links) =>
        \A n \in 1..Len(date_choice_counts) :
            /\ Len(RowsOfBucket(n)) >= 1
            /\ date_choice_counts[n][2] >= 1

\* A range choice starts no later than it ends: its values have one format,
\* so the order of the strings is the order of the dates.
StartsBeforeEnd(c) == c.range_type.single \/ cmpStr(c.values[1], c.values[2]) <= 0

\* C16: every range in the selection a filter builds from its parameters, and
\* every range that collapse_results gives to get_choices_add, has
\* start <= end.
C16_RangesStartBeforeEnd ==
    /\ pc # "request" => \A i \in 1..Len(chosen) : StartsBeforeEnd(chosen[i])
    /\ (pc = "done" /\ add_range_type(self, qs) # NoRangeType) =>
          LET counted == add_date_choice_counts(self, qs)
          IN \A n \in 1..Len(counted) : StartsBeforeEnd(counted[n][1])

\* What holds of the code: the ranges that collapse_results returns, called on
\* its own, have start <= end.
ReturnedRangesStartBeforeEnd ==
    pc = "returned" =>
        \A n \in 1..Len(date_choice_counts) : StartsBeforeEnd(date_choice_counts[n][1])

\* The choices of the parameter values that parse, in the order supplied.
SuppliedChoices == parsed_params(params.field, CHOOSE order \in RegistryOrders : TRUE)

\* C17 as stated: the selection lists the values that parse in the order in
\* which the request supplied them, so its last entry is the last one supplied.
C17_SelectionInSuppliedOrder ==
    pc # "request" => chosen = SuppliedChoices

\* How many times a choice occurs in a list.
Occurrences(c, list) == Len(SelectSeq(list, LAMBDA x : x = c))

\* C17 amended: the selection holds the values that parse, each as often as
\* supplied, in ascending (range_type, values) order, so its last entry, which
\* determines the next drill-down level, is the greatest value supplied,
\* wherever in the request it was.
C17_SelectionSorted ==
    pc # "request" =>
        /\ Len(chosen) = Len(SuppliedChoices)
        /\ \A i \in 1..Len(chosen) :
              Occurrences(chosen[i], chosen) = Occurrences(chosen[i], SuppliedChoices)
        /\ \A i \in 1..Len(chosen) : \A j \in i..Len(chosen) :
              cmpChoice(chosen[i], chosen[j]) <= 0

\* A month supplied before its year: the year comes first in the selection
\* and the month, supplied first, is its last entry.
C17_Witness ==
    /\ pc = "done"
    /\ params.field = << "1813-02", "1813" >>
    /\ chosen = << DateChoice(YEAR, << "1813" >>), DateChoice(MONTH, << "1813-02" >>) >>
    /\ queries = << "dates.day" >>

\* The request that has returned followed an ADD link from the selection
\* via.chosen, itself reached from no selection by ADD links alone.
AddedToSelection ==
    /\ pc = "done"
    /\ via.link_type = FILTER_ADD
    /\ via.adds_only

\* C18: after the ADD link of a choice b is followed from a selection S
\* reached by ADD links, the REMOVE link of b in the resulting filter leads
\* back to exactly S: its parameters hold the values of S and no other, no
\* 'page', and the other fields' parameters as they were.
C18_AddThenRemoveIsIdentity ==
    AddedToSelection =>
        \A i \in 1..Len(chosen) :
            ~ In(chosen[i], via.chosen) =>
                choices[i].params =
                    << Params(param_from_choices(via.chosen), << >>, params.other) >>

\* C19: with max_depth None, max_links >= 2 and a field that is not nullable,
\* in every request reached from no selection by ADD links alone, a filtered
\* result set with records of two or more days gets at least one ADD entry.
C19_DrillDownNeverDeadEnds ==
    (/\ pc = "done"
     /\ via.adds_only
     /\ max_depth = "none"
     /\ max_links >= 2
     /\ ~ null
     /\ Cardinality(qs) >= 2) =>
        \E i \in 1..Len(choices) : choices[i].link_type = FILTER_ADD

\* C20: when the collapse triggers on rows of days, collapse_results does not
\* raise: the start day first + bucketsize * i of every bucket i < numbuckets
\* is a day that the month of the first row has.
C20_BucketStartDaysExist ==
    (pc \in {"returned", "raised"} /\ range_type = DAY /\ Len(results) > max_links) =>
        /\ pc # "raised"
        /\ \A i \in 0..(collapse_numbuckets(max_links, results, range_type) - 1) :
              collapse_first(results, range_type)
                  + collapse_bucketsize(max_links, results, range_type) * i
                <= DaysInMonth(results[1][1].year, results[1][1].month)

\* The DISPLAY bridge entries that get_choices_add returned.
FoundBridges == SelectSeq(get_choices_add(self, qs), IsBridgeEntry)

\* C21 as stated: whenever get_choices_add returns bridge entries it returns
\* an ADD entry too, for every max_depth and every store.
C21_NoBridgeWithoutAdd ==
    (pc = "done" /\ Len(FoundBridges) > 0) => Len(FoundAdds) > 0

\* C21 amended: when get_choices_add returns bridge entries, it returns at
\* least one ADD entry if the granularity it counted is within max_depth,
\* and no ADD entry at all if that granularity is deeper than max_depth.
C21_BridgeWithAddWithinDepth ==
    (pc = "done" /\ Len(FoundBridges) > 0) =>
        IF add_range_type(self, qs).level <= DepthCap
        THEN Len(FoundAdds) > 0
        ELSE Len(FoundAdds) = 0

\* Months of one year counted with max_depth 'year': the year is shown as a
\* bridge and no month is offered.
C21_Witness ==
    /\ pc = "done"
    /\ max_depth = "year"
    /\ add_range_type(self, qs) = MONTH
    /\ Len(FoundBridges) = 1
    /\ Len(FoundAdds) = 0
    /\ Cardinality(qs) >= 2

====
